---- MODULE Spec2Model ----
(***************************************************************************)
(* MovieVault: the TTL cache over localStorage (scripts/helpers.js) and    *)
(* the fetch-with-retry client of the TMDB API layer (scripts/api.js).     *)
(*                                                                         *)
(* Time is the value of Date.now() in milliseconds.  A string held by      *)
(* localStorage is a record: [kind |-> "json", value |-> v] is the text    *)
(* JSON.stringify(v); getItem's null is Null.  A JavaScript value that     *)
(* travels as a payload is a record [type, id].                            *)
(***************************************************************************)
EXTENDS Integers, Sequences, FiniteSets, TLC

VARIABLES
    now,                      \* Date.now()
    isLocalStorageAvailable,  \* result of the availability probe at load
    TMDB_API_KEY,             \* CONFIG.TMDB_API_KEY
    localStorage,             \* window.localStorage: key -> stored string
    calls,                    \* the fetchJsonWithCache / API-layer invocations
    written,                  \* history: last setCache call per key
    last,                     \* history: the operation that just returned
    quotaExceeded,            \* the writes for which localStorage.setItem throws
    keyCall,                  \* buildCacheKey: the arguments and the keys built
    loadedMovies,             \* state.loadedMovies (the movies' ids)
    loads,                    \* history: the movies loaded since the list was last replaced
    loadCalls,                \* history: the calls of updateLoadedMovies so far
    queue,                    \* state.planner.queue
    toasts,                   \* the toasts on screen that carry an Undo handler
    pending,                  \* the queueMovie calls waiting on getMovieRuntime
    plannerOp,                \* history: the planner operation that completed last
    planOps,                  \* history: the planner operations started so far
    planRefused,              \* history: the store has refused a write of the plan
    state,                    \* state: the browse selection, the paging, loading, prefetch
    idle,                     \* the callbacks handed to runIdle that have not run yet
    fetches,                  \* the prefetch callbacks awaiting their response
    awaiting,                 \* the loadMovies calls awaiting their response
    grid,                     \* the movie cards in the grid
    feedLog                   \* history: what the last handler did, and counts

keyVars == <<keyCall>>
movieVars == <<loadedMovies, loads, loadCalls>>
plannerVars == <<queue, toasts, pending, plannerOp, planOps, planRefused>>
feedVars == <<state, idle, fetches, awaiting, grid, feedLog>>
uiVars == <<movieVars, plannerVars, feedVars>>

vars == <<now, isLocalStorageAvailable, TMDB_API_KEY, localStorage, calls, written, last,
          quotaExceeded, keyVars, uiVars>>

----------------------------------------------------------------------------
(* Program constants *)

CACHE_TTL == 10 * 60 * 1000
MAX_RETRIES == 2
CACHE_PREFIX == "movievault_cache_"
CACHE_INDEX == "movievault_cache_index"
BACKOFF_MS == 450
TOAST_FETCH_FAILED == "We hit a snag fetching fresh data."
PLACEHOLDER_KEY == "your_tmdb_api_key_here"

(* Bounds of the model *)

StartTime == 1000
MaxShortTicks == 3
MaxLongTicks == 1

\* The invocations of the API layer, numbered in the order they are made.
Calls == {1, 2}

\* The cache keys the API layer builds for the modelled endpoints.
CacheKeys == {"search::page:1|query:dune", "genres"}
\* Arguments given to the cache functions: "" is the falsy key.
KeyArgs == CacheKeys \cup {""}
\* Arguments that include the key whose storage key is the index record's.
StoreKeys == {"genres", "index", ""}
\* ttl arguments: zero, one shorter than the retry backoffs together, the default.
TtlArgs == {0, 2 * BACKOFF_MS, CACHE_TTL}

\* JavaScript values used as payloads: an object and the falsy number 0.
Payloads == {[type |-> "object", id |-> 1], [type |-> "number", id |-> 0]}
NullValue == [type |-> "null", id |-> 0]
Undefined == [type |-> "undefined", id |-> 0]

\* JavaScript truthiness of a payload value and of a number.
Truthy(v) == /\ v.type \notin {"null", "undefined"}
             /\ ~(v.type = "number" /\ v.id = 0)
TruthyNum(n) == n # 0

----------------------------------------------------------------------------
(* localStorage strings *)

Null == [kind |-> "null"]
\* A string that is not JSON text: JSON.parse throws on it.
Malformed == [kind |-> "text"]
JSONstringify(v) == [kind |-> "json", value |-> v]
JSONparses(raw) == raw.kind = "json"
JSONparse(raw) == raw.value
TruthyRaw(raw) == raw.kind # "null"

\* A JavaScript array, and the test behind index.filter / index.includes /
\* index.push: they are functions on arrays only.
Array(items) == [type |-> "array", items |-> items]
isArray(v) == "type" \in DOMAIN v /\ v.type = "array"
\* payload.timestamp, payload.ttl: undefined (falsy, here 0) on a value without it.
prop(v, name) == IF name \in DOMAIN v THEN v[name] ELSE 0

\* `${CACHE_PREFIX}${key}` on the keys of the model.
buildStorageKey(key) ==
    CASE key = "search::page:1|query:dune" -> "movievault_cache_search::page:1|query:dune"
      [] key = "genres" -> "movievault_cache_genres"
      [] key = "" -> CACHE_PREFIX
      [] key = "index" -> "movievault_cache_index"

\* key.startsWith(CACHE_PREFIX) on the keys localStorage can hold.
startsWithCachePrefix(key) ==
    key \in {buildStorageKey(k) : k \in KeyArgs \cup StoreKeys}

(* The storage wrapper: every operation is a no-op without the store. *)

\* window.localStorage.setItem(key, value) throws (QuotaExceededError).
setItemThrows(key) ==
    (IF key = CACHE_INDEX THEN "index" ELSE "entry") \in quotaExceeded

storageGet(ls, key) ==
    IF ~isLocalStorageAvailable THEN Null
    ELSE IF key \in DOMAIN ls THEN ls[key] ELSE Null

storageSet(ls, key, value) ==
    IF ~isLocalStorageAvailable THEN ls
    ELSE IF setItemThrows(key) THEN ls
    ELSE [k \in DOMAIN ls \cup {key} |-> IF k = key THEN value ELSE ls[k]]

storageRemove(ls, key) ==
    IF ~isLocalStorageAvailable THEN ls
    ELSE [k \in DOMAIN ls \ {key} |-> ls[k]]

storageKeys(ls) == IF ~isLocalStorageAvailable THEN {} ELSE DOMAIN ls

includesNever(index, x) == FALSE
\* index.includes(x)
includes(index, x) == \E i \in 1..Len(index) : index[i] = x

\* The index as updateCacheIndex parses it: [] when absent or unparsable.
parsedIndex(ls) ==
    LET rawIndex == storageGet(ls, CACHE_INDEX)
    IN IF TruthyRaw(rawIndex) /\ JSONparses(rawIndex) THEN JSONparse(rawIndex) ELSE Array(<<>>)

\* updateCacheIndex raises a TypeError: the parsed index is not an array.
updateCacheIndexThrows(ls) == ~isArray(parsedIndex(ls))

\* updateCacheIndex(cacheKey, remove): the store after the call.
updateCacheIndex(ls, cacheKey, remove) ==
    IF updateCacheIndexThrows(ls) THEN ls
    ELSE LET parsed == parsedIndex(ls).items
             index == IF remove THEN SelectSeq(parsed, LAMBDA k : k # cacheKey)
                      ELSE IF ~includes(parsed, cacheKey) THEN Append(parsed, cacheKey)
                      ELSE parsed
         IN storageSet(ls, CACHE_INDEX, JSONstringify(Array(index)))

isExpired(timestamp, ttl) == now - timestamp > ttl

\* setCache(key, data, ttl): the store after the call.
setCache(ls, key, data, ttl) ==
    IF ~isLocalStorageAvailable \/ key = "" THEN ls
    ELSE LET payload == [timestamp |-> now, ttl |-> ttl, data |-> data]
             storageKey == buildStorageKey(key)
         IN updateCacheIndex(storageSet(ls, storageKey, JSONstringify(payload)),
                             storageKey, FALSE)

\* setCache raises: the TypeError of updateCacheIndex, after the entry write.
setCacheThrows(ls, key, data, ttl) ==
    /\ isLocalStorageAvailable /\ key # ""
    /\ updateCacheIndexThrows(
          storageSet(ls, buildStorageKey(key),
                     JSONstringify([timestamp |-> now, ttl |-> ttl, data |-> data])))

\* getCache raises: the TypeError of updateCacheIndex, when it drops an
\* expired entry or, inside the catch, one that does not parse.
getCacheThrows(ls, key) ==
    /\ isLocalStorageAvailable /\ key # ""
    /\ LET storageKey == buildStorageKey(key)
           raw == storageGet(ls, storageKey)
       IN /\ TruthyRaw(raw)
          /\ \/ ~JSONparses(raw)
             \/ /\ TruthyNum(prop(JSONparse(raw), "timestamp"))
                /\ TruthyNum(prop(JSONparse(raw), "ttl"))
                /\ isExpired(JSONparse(raw).timestamp, JSONparse(raw).ttl)
          /\ updateCacheIndexThrows(storageRemove(ls, storageKey))

\* getCache(key): the value returned and the store after the call.
getCache(ls, key) ==
    IF ~isLocalStorageAvailable \/ key = "" THEN [value |-> NullValue, store |-> ls]
    ELSE LET storageKey == buildStorageKey(key)
             raw == storageGet(ls, storageKey)
             dropped == updateCacheIndex(storageRemove(ls, storageKey), storageKey, TRUE)
         IN IF ~TruthyRaw(raw) THEN [value |-> NullValue, store |-> ls]
            ELSE IF ~JSONparses(raw) THEN [value |-> NullValue, store |-> dropped]
            ELSE LET payload == JSONparse(raw)
                 IN IF TruthyNum(prop(payload, "timestamp")) /\ TruthyNum(prop(payload, "ttl"))
                    THEN IF isExpired(payload.timestamp, payload.ttl)
                         THEN [value |-> NullValue, store |-> dropped]
                         ELSE [value |-> payload.data, store |-> ls]
                    ELSE [value |-> NullValue, store |-> ls]

clearAllCacheByIndex(ls) ==
    LET index == IF isArray(parsedIndex(ls)) THEN parsedIndex(ls).items ELSE << >>
        listed == {index[i] : i \in 1..Len(index)}
    IN storageRemove([k \in DOMAIN ls \ (listed \cap storageKeys(ls)) |-> ls[k]], CACHE_INDEX)
\* clearAllCache(): every store key with the prefix is removed, then the index.
clearAllCache(ls) ==
    LET keys == {k \in storageKeys(ls) : startsWithCachePrefix(k)}
    IN storageRemove([k \in DOMAIN ls \ keys |-> ls[k]], CACHE_INDEX)

----------------------------------------------------------------------------
(* History variables *)

NoWrite == [set |-> FALSE, at |-> 0, ttl |-> 0, data |-> Undefined]
NoOp == [op |-> "none", key |-> "", value |-> Undefined, threw |-> FALSE]

\* The record of a direct setCache call on a cache key.
Record(w, key, data, ttl) ==
    IF key \in CacheKeys
    THEN [w EXCEPT ![key] = [set |-> TRUE, at |-> now, ttl |-> ttl, data |-> data]]
    ELSE w

----------------------------------------------------------------------------
(* The API layer *)

\* key.trim().toLowerCase() on the configured values of the model.
normalize(key) ==
    CASE key = "634f3424186067405c1368917c4aedf6" -> "634f3424186067405c1368917c4aedf6"
      [] key = "" -> ""
      [] key = " YOUR_TMDB_API_KEY_HERE " -> PLACEHOLDER_KEY

KeyConfigs == {"634f3424186067405c1368917c4aedf6", "", " YOUR_TMDB_API_KEY_HERE "}

hasTmdbApiKeyNonEmpty == normalize(TMDB_API_KEY) # ""
\* Boolean(normalized) && normalized !== "your_tmdb_api_key_here"
hasTmdbApiKey == normalize(TMDB_API_KEY) # "" /\ normalize(TMDB_API_KEY) # PLACEHOLDER_KEY

NoError == [code |-> "none", status |-> 0, attempt |-> 0]
createMissingKeyError == [code |-> "TMDB_KEY_MISSING", status |-> 0, attempt |-> 0]
GENRE_MAP == [type |-> "GENRE_MAP", id |-> 0]

\* What one fetch(url) comes back with: a transport error, a 4xx or a 5xx
\* response, or a 200 response whose body is the JSON text of a payload.
Responses ==
    {[net |-> "error", status |-> 0, json |-> FALSE, body |-> Undefined]}
    \cup {[net |-> "response", status |-> s, json |-> FALSE, body |-> Undefined] : s \in {404, 503}}
    \cup {[net |-> "response", status |-> 200, json |-> TRUE, body |-> p] : p \in Payloads}

responseOk(resp) == resp.net = "response" /\ resp.status \in 200..299

\* The error an attempt ends with, tagged with the attempt that raised it: the
\* rejection of fetch, the Error thrown for a status that is not ok, the
\* SyntaxError of response.json(), or the TypeError raised inside setCache.
attemptError(resp, attempt) ==
    IF resp.net = "error" THEN [code |-> "TypeError", status |-> 0, attempt |-> attempt]
    ELSE IF ~responseOk(resp) THEN [code |-> "RequestFailed", status |-> resp.status, attempt |-> attempt]
    ELSE IF ~resp.json THEN [code |-> "SyntaxError", status |-> resp.status, attempt |-> attempt]
    ELSE [code |-> "TypeError", status |-> resp.status, attempt |-> attempt]

\* The API functions of the model: searchMovies(query) stands for the functions
\* that build a URL and fetch; fetchGenres() has the static fallback.
ApiFns == {"searchMovies", "fetchGenres"}
Queries == {"", "dune"}
\* The options of fetchJsonWithCache; ttl is not read when skipCache is set.
\* fetchGenres passes none, so it gets the defaults.
Options == {[ttl |-> t, skipCache |-> FALSE] : t \in TtlArgs}
           \cup {[ttl |-> CACHE_TTL, skipCache |-> TRUE]}
DefaultOptions == [ttl |-> CACHE_TTL, skipCache |-> FALSE]

\* buildCacheKey(namespace, params) for the two functions.
apiCacheKey(fn) == IF fn = "fetchGenres" THEN "genres" ELSE "search::page:1|query:dune"

NoResponse == [net |-> "none", status |-> 0, json |-> FALSE, body |-> Undefined]

\* One invocation: the arguments and locals of fetchJsonWithCache (pc, fn,
\* cacheKey, ttl, skipCache, attempt, lastError, result, the pending timer),
\* and its history: the network attempts started and in flight, the failed
\* attempts, the response last received, the delays asked of sleep, the toasts.
Idle ==
    [pc |-> "idle", fn |-> "", cacheKey |-> "", ttl |-> 0, skipCache |-> FALSE,
     attempt |-> 0, lastError |-> NoError, result |-> Undefined,
     sleepFrom |-> 0, sleepMs |-> 0,
     netAttempts |-> 0, inflight |-> 0, failures |-> 0, response |-> NoResponse,
     delays |-> << >>, toasts |-> << >>]

DEFAULT_CATEGORY == "trending"
\* Infinity, as state.totalPages holds it: above every page number.
Infinity == 999999
isFinite(n) == n # Infinity

\* A fetched page as loadMovies reads it: total_pages and results (the ids of
\* its movies); request tells which call of the API layer produced it.
NoRequest == [fn |-> "", arg |-> "", page |-> 0]
NoPage == [ok |-> FALSE, request |-> NoRequest, total_pages |-> 0, results |-> << >>]
\* state.prefetch = null, state.prefetchToken = null
NoPrefetch == [signature |-> "", page |-> 0, data |-> NoPage]
NoToken == [signature |-> "", nextPage |-> 0, at |-> 0]

NoFeedLog ==
    [started |-> FALSE, observing |-> FALSE, busy |-> FALSE,
     fromPrefetch |-> FALSE, wanted |-> NoRequest, got |-> NoRequest,
     changes |-> 0, raced |-> FALSE, failed |-> FALSE, resets |-> 0, staleStored |-> FALSE]

\* const state = { category: DEFAULT_CATEGORY, page: 1, totalPages: Infinity, ... }
FeedInit ==
    /\ state = [category |-> DEFAULT_CATEGORY, selectedGenres |-> << >>, searchQuery |-> "",
                page |-> 1, totalPages |-> Infinity, loading |-> FALSE, lastScrollLoad |-> 0,
                prefetch |-> NoPrefetch, prefetchToken |-> NoToken,
                missingApiKeyHandled |-> FALSE]
    /\ idle = {}
    /\ fetches = {}
    /\ awaiting = << >>
    /\ grid = << >>
    /\ feedLog = NoFeedLog

\* The page state at load (const state = { ..., loadedMovies: [] }).
UiInit ==
    /\ FeedInit
    /\ loadedMovies = << >>
    /\ loads = << >>
    /\ loadCalls = 0
    /\ queue = << >>
    /\ toasts = {}
    /\ pending = << >>
    /\ plannerOp = "none"
    /\ planOps = 0
    /\ planRefused = FALSE

NoKeyCall == [namespace |-> "", p1 |-> << >>, p2 |-> << >>, built |-> FALSE, k1 |-> "", k2 |-> ""]

Init ==
    /\ now = StartTime
    /\ isLocalStorageAvailable \in BOOLEAN
    /\ TMDB_API_KEY \in KeyConfigs
    /\ localStorage = << >>
    /\ calls = [c \in Calls |-> Idle]
    /\ written = [k \in CacheKeys |-> NoWrite]
    /\ last = NoOp
    /\ quotaExceeded = {}
    /\ keyCall = NoKeyCall
    /\ UiInit

sleepFromZero(attempt) == BACKOFF_MS * attempt
\* sleep(450 * (attempt + 1)): the delay asked for.
sleep(attempt) == BACKOFF_MS * (attempt + 1)

\* if (!skipCache) before the lookup, if (cached) after it.
consultCache(skipCache) == ~skipCache
cacheHitDefined(cached) == cached.type # "undefined"
cacheHit(cached) == Truthy(cached)
writeThroughNever(skipCache) == FALSE
writeThroughAlways(skipCache) == TRUE
\* if (!skipCache) before setCache.
writeThrough(skipCache) == ~skipCache
\* while (attempt <= MAX_RETRIES) and if (attempt === MAX_RETRIES).
loopContinues(attempt) == attempt <= MAX_RETRIES
lastAttemptEarly(attempt) == attempt = MAX_RETRIES - 1
lastAttemptAny(attempt) == attempt >= 0
lastAttemptNever(attempt) == FALSE
lastAttempt(attempt) == attempt = MAX_RETRIES

\* fetchJsonWithCache up to its first await: the cache lookup (outside the try:
\* what getCache raises rejects the call), then attempt 0.
fetchJsonWithCache(c, fn, cacheKey, ttl, skipCache) ==
    LET got == getCache(localStorage, cacheKey)
        base == [Idle EXCEPT !.fn = fn, !.cacheKey = cacheKey, !.ttl = ttl,
                             !.skipCache = skipCache]
    IN IF consultCache(skipCache) /\ getCacheThrows(localStorage, cacheKey)
       THEN /\ calls' = [calls EXCEPT ![c] =
                  [base EXCEPT !.pc = "rejected",
                               !.lastError = [code |-> "TypeError", status |-> 0, attempt |-> 0]]]
            /\ localStorage' = got.store
       ELSE IF consultCache(skipCache) /\ cacheHit(got.value)
       THEN /\ calls' = [calls EXCEPT ![c] = [base EXCEPT !.pc = "resolved", !.result = got.value]]
            /\ localStorage' = got.store
       ELSE /\ calls' = [calls EXCEPT ![c] =
                  IF loopContinues(0)
                  THEN [base EXCEPT !.pc = "fetch", !.netAttempts = 1, !.inflight = 1]
                  ELSE [base EXCEPT !.pc = "rejected"]]
            /\ localStorage' = IF consultCache(skipCache) THEN got.store ELSE localStorage

\* An API function is called: its guards, buildTmdbUrl (ensureTmdbKey),
\* buildCacheKey, then fetchJsonWithCache with the options.
ApiCall(c, fn, query, opts) ==
    /\ calls[c].pc = "idle"
    /\ \A d \in Calls : d < c => calls[d].pc # "idle"
    /\ fn = "fetchGenres" => query = "" /\ opts = DefaultOptions
    /\ IF fn = "searchMovies" /\ query = ""
       THEN /\ calls' = [calls EXCEPT ![c] = [Idle EXCEPT !.fn = fn, !.pc = "empty"]]
            /\ UNCHANGED localStorage
       ELSE IF ~hasTmdbApiKey
       THEN /\ calls' = [calls EXCEPT ![c] =
                  [Idle EXCEPT !.fn = fn, !.pc = "keyMissing",
                               !.lastError = IF fn = "fetchGenres" THEN NoError
                                             ELSE createMissingKeyError]]
            /\ UNCHANGED localStorage
       ELSE fetchJsonWithCache(c, fn, apiCacheKey(fn), opts.ttl, opts.skipCache)
    /\ last' = NoOp
    /\ UNCHANGED <<now, isLocalStorageAvailable, TMDB_API_KEY, written, quotaExceeded, keyVars, uiVars>>

\* The awaited fetch settles: the rest of the try block, the catch and the finally.
Respond(c, resp) ==
    LET call == calls[c]
        writes == responseOk(resp) /\ resp.json /\ writeThrough(call.skipCache)
        afterWrite == setCache(localStorage, call.cacheKey, resp.body, call.ttl)
        threw == writes /\ setCacheThrows(localStorage, call.cacheKey, resp.body, call.ttl)
    IN
    /\ call.pc = "fetch"
    /\ IF responseOk(resp) /\ resp.json /\ ~threw
       THEN /\ localStorage' = IF writes THEN afterWrite ELSE localStorage
            /\ calls' = [calls EXCEPT ![c] =
                  [call EXCEPT !.pc = "resolved",
                               !.result = resp.body,
                               !.lastError = NoError,
                               !.inflight = 0,
                               !.response = resp,
                               !.attempt = @ + 1]]
       ELSE /\ localStorage' = IF threw THEN afterWrite ELSE localStorage
            /\ calls' = [calls EXCEPT ![c] =
                  IF lastAttempt(call.attempt)
                  THEN [call EXCEPT !.pc = "rejected",
                                    !.lastError = attemptError(resp, call.attempt),
                                    !.toasts = Append(@, TOAST_FETCH_FAILED),
                                    !.inflight = 0,
                                    !.failures = @ + 1,
                                    !.response = resp,
                                    !.attempt = @ + 1]
                  ELSE [call EXCEPT !.pc = "sleep",
                                    !.lastError = attemptError(resp, call.attempt),
                                    !.inflight = 0,
                                    !.failures = @ + 1,
                                    !.response = resp,
                                    !.sleepFrom = now,
                                    !.sleepMs = sleep(call.attempt),
                                    !.delays = Append(@, sleep(call.attempt))]]
    /\ last' = NoOp
    /\ UNCHANGED <<now, isLocalStorageAvailable, TMDB_API_KEY, written, quotaExceeded, keyVars, uiVars>>

\* window.setTimeout(resolve, ms): the timer fires no earlier than ms later.
timerDue(call) == now >= call.sleepFrom + call.sleepMs

\* The timer of sleep fires: the finally, the loop test and the next attempt.
Wake(c) ==
    LET call == calls[c] IN
    /\ call.pc = "sleep"
    /\ timerDue(call)
    /\ calls' = [calls EXCEPT ![c] =
          IF loopContinues(call.attempt + 1)
          THEN [call EXCEPT !.pc = "fetch", !.attempt = @ + 1, !.sleepFrom = 0, !.sleepMs = 0,
                            !.netAttempts = @ + 1, !.inflight = 1]
          ELSE [call EXCEPT !.pc = "rejected", !.attempt = @ + 1, !.sleepFrom = 0, !.sleepMs = 0]]
    /\ last' = NoOp
    /\ UNCHANGED <<now, isLocalStorageAvailable, TMDB_API_KEY, localStorage, written,
                   quotaExceeded, keyVars, uiVars>>

\* What the API function hands its caller once the call has settled.
apiOutcome(call) ==
    CASE call.pc = "empty" -> [state |-> "resolved", value |-> [type |-> "emptyPage", id |-> 0], error |-> NoError]
      [] call.pc = "keyMissing" /\ call.fn = "fetchGenres" ->
            [state |-> "resolved", value |-> GENRE_MAP, error |-> NoError]
      [] call.pc = "keyMissing" /\ call.fn # "fetchGenres" ->
            [state |-> "rejected", value |-> Undefined, error |-> call.lastError]
      [] call.pc = "resolved" /\ call.fn = "fetchGenres" ->
            [state |-> "resolved", value |-> IF Truthy(call.result) THEN call.result ELSE GENRE_MAP,
             error |-> NoError]
      [] call.pc = "resolved" /\ call.fn # "fetchGenres" ->
            [state |-> "resolved", value |-> call.result, error |-> NoError]
      [] call.pc = "rejected" /\ call.fn = "fetchGenres" ->
            [state |-> "resolved", value |-> GENRE_MAP, error |-> NoError]
      [] call.pc = "rejected" /\ call.fn # "fetchGenres" ->
            [state |-> "rejected", value |-> Undefined, error |-> call.lastError]
      [] OTHER -> [state |-> "pending", value |-> Undefined, error |-> NoError]

----------------------------------------------------------------------------
(* The cache functions called directly (they are exported). *)

SetCacheOp(key, data, ttl) ==
    /\ localStorage' = setCache(localStorage, key, data, ttl)
    /\ written' = Record(written, key, data, ttl)
    /\ last' = [op |-> "setCache", key |-> key, value |-> Undefined,
                 threw |-> setCacheThrows(localStorage, key, data, ttl)]
    /\ UNCHANGED <<now, isLocalStorageAvailable, TMDB_API_KEY, calls, quotaExceeded, keyVars, uiVars>>

GetCacheOp(key) ==
    /\ localStorage' = getCache(localStorage, key).store
    /\ last' = [op |-> "getCache", key |-> key,
                 value |-> IF getCacheThrows(localStorage, key) THEN Undefined
                           ELSE getCache(localStorage, key).value,
                 threw |-> getCacheThrows(localStorage, key)]
    /\ UNCHANGED <<now, isLocalStorageAvailable, TMDB_API_KEY, calls, written,
                   quotaExceeded, keyVars, uiVars>>

ClearAllCacheOp ==
    /\ localStorage' = clearAllCache(localStorage)
    /\ written' = [k \in CacheKeys |-> NoWrite]
    /\ last' = [op |-> "clearAllCache", key |-> "", value |-> Undefined, threw |-> FALSE]
    /\ UNCHANGED <<now, isLocalStorageAvailable, TMDB_API_KEY, calls, quotaExceeded, keyVars, uiVars>>

(* The clock: 450 ms steps (the backoff unit) and CACHE_TTL steps. *)

ShortTicks == ((now - StartTime) % CACHE_TTL) \div BACKOFF_MS
LongTicks == (now - StartTime) \div CACHE_TTL

TickShort ==
    /\ ShortTicks < MaxShortTicks
    /\ now' = now + BACKOFF_MS
    /\ last' = NoOp
    /\ UNCHANGED <<isLocalStorageAvailable, TMDB_API_KEY, localStorage, calls, written,
                   quotaExceeded, keyVars, uiVars>>

TickLong ==
    /\ LongTicks < MaxLongTicks
    /\ now' = now + CACHE_TTL
    /\ last' = NoOp
    /\ UNCHANGED <<isLocalStorageAvailable, TMDB_API_KEY, localStorage, calls, written,
                   quotaExceeded, keyVars, uiVars>>

\* The fetch client and the API layer.
Next ==
    \/ \E c \in Calls, fn \in ApiFns, query \in Queries, opts \in Options :
          ApiCall(c, fn, query, opts)
    \/ \E c \in Calls, resp \in Responses : Respond(c, resp)
    \/ \E c \in Calls : Wake(c)
    \/ TickShort
    \/ TickLong

Spec == Init /\ [][Next]_vars

(* The environment of the store: another script of the page (or the user)
   writes a string that is not JSON under a cache key, and the store fills up,
   so that setItem throws for the entry writes, the index writes or both. *)

THEME_KEY == "movievault_theme"
TamperKeys == {buildStorageKey(k) : k \in {"genres", "index"}}

Tamper(key) ==
    /\ localStorage' = [k \in DOMAIN localStorage \cup {key} |->
                           IF k = key THEN Malformed ELSE localStorage[k]]
    /\ last' = NoOp
    /\ UNCHANGED <<now, isLocalStorageAvailable, TMDB_API_KEY, calls, written,
                   quotaExceeded, keyVars, uiVars>>

SetQuota(q) ==
    /\ quotaExceeded' = q
    /\ q # quotaExceeded
    /\ last' = NoOp
    /\ UNCHANGED <<now, isLocalStorageAvailable, TMDB_API_KEY, localStorage, calls, written,
                   keyVars, uiVars>>

\* The cache functions alone.
NextCache ==
    \/ \E key \in KeyArgs, data \in Payloads, ttl \in TtlArgs : SetCacheOp(key, data, ttl)
    \/ \E key \in KeyArgs : GetCacheOp(key)
    \/ ClearAllCacheOp
    \/ TickShort
    \/ TickLong

SpecCache == Init /\ [][NextCache]_vars

\* The cache functions over a store that other data lives in, that other
\* scripts write to and that can fill up.
InitStore ==
    /\ now = StartTime
    /\ isLocalStorageAvailable \in BOOLEAN
    /\ TMDB_API_KEY = "634f3424186067405c1368917c4aedf6"
    /\ localStorage = [k \in {THEME_KEY} |-> Malformed]
    /\ calls = [c \in Calls |-> Idle]
    /\ written = [k \in CacheKeys |-> NoWrite]
    /\ last = NoOp
    /\ quotaExceeded = {}
    /\ keyCall = NoKeyCall
    /\ UiInit

NextStore ==
    \/ \E key \in StoreKeys, data \in Payloads, ttl \in TtlArgs : SetCacheOp(key, data, ttl)
    \/ \E key \in StoreKeys : GetCacheOp(key)
    \/ ClearAllCacheOp
    \/ \E key \in TamperKeys : Tamper(key)
    \/ \E q \in SUBSET {"entry", "index"} : SetQuota(q)
    \/ TickLong

SpecStore == InitStore /\ [][NextStore]_vars

\* The page loaded with the probe failed: the store cannot be used, though it
\* may hold what an earlier session left (here an unexpired genres entry).
LeftOver ==
    [k \in {THEME_KEY, buildStorageKey("genres"), CACHE_INDEX} |->
        CASE k = THEME_KEY -> Malformed
          [] k = CACHE_INDEX -> JSONstringify(Array(<<buildStorageKey("genres")>>))
          [] OTHER -> JSONstringify([timestamp |-> StartTime, ttl |-> CACHE_TTL,
                                     data |-> [type |-> "object", id |-> 1]])]

InitDegraded ==
    /\ now = StartTime
    /\ isLocalStorageAvailable = FALSE
    /\ TMDB_API_KEY = "634f3424186067405c1368917c4aedf6"
    /\ localStorage \in {[k \in {THEME_KEY} |-> Malformed], LeftOver}
    /\ calls = [c \in Calls |-> Idle]
    /\ written = [k \in CacheKeys |-> NoWrite]
    /\ last = NoOp
    /\ quotaExceeded = {}
    /\ keyCall = NoKeyCall
    /\ UiInit

NextDegraded ==
    \/ \E c \in Calls, fn \in ApiFns, query \in Queries : ApiCall(c, fn, query, DefaultOptions)
    \/ \E c \in Calls, resp \in Responses : Respond(c, resp)
    \/ \E c \in Calls : Wake(c)
    \/ \E data \in Payloads : SetCacheOp("genres", data, CACHE_TTL)
    \/ \E key \in StoreKeys : GetCacheOp(key)
    \/ ClearAllCacheOp
    \/ TickShort

SpecDegraded == InitDegraded /\ [][NextDegraded]_vars

\* One invocation of the API layer over a store whose writes can fail, next
\* to a caller of the exported setCache that uses the key "index".
NextFaults ==
    \/ \E fn \in ApiFns, query \in Queries, opts \in Options : ApiCall(1, fn, query, opts)
    \/ \E resp \in Responses : Respond(1, resp)
    \/ Wake(1)
    \/ SetCacheOp("index", [type |-> "object", id |-> 1], CACHE_TTL)
    \/ \E q \in SUBSET {"entry", "index"} : SetQuota(q)
    \/ TickShort

InitFaults == InitStore /\ isLocalStorageAvailable

SpecFaults == InitFaults /\ [][NextFaults]_vars

----------------------------------------------------------------------------
(* What the store holds for a cache key *)

entryOf(ls, key) ==
    IF buildStorageKey(key) \in DOMAIN ls THEN ls[buildStorageKey(key)] ELSE Null

indexOf(ls) ==
    IF CACHE_INDEX \in DOMAIN ls /\ JSONparses(ls[CACHE_INDEX])
          /\ isArray(JSONparse(ls[CACHE_INDEX]))
    THEN JSONparse(ls[CACHE_INDEX]).items ELSE << >>

indexLists(ls, key) == includes(indexOf(ls), buildStorageKey(key))

----------------------------------------------------------------------------
(* Claims *)

\* C1 (TTL round-trip): with the store available, getCache(k) called at a time
\* t' after setCache(k, v, ttl) at time t, with t' - t <= ttl and no other write
\* to k in between, returns v, for every ttl >= 0.
C1_TtlRoundTrip ==
    \A k \in CacheKeys :
        ( /\ isLocalStorageAvailable
          /\ last.op = "getCache" /\ last.key = k
          /\ written[k].set
          /\ written[k].ttl >= 0
          /\ now - written[k].at <= written[k].ttl )
        => last.value = written[k].data

\* C2 (TTL expiry): getCache(k) called at a time t' after setCache(k, v, ttl) at
\* time t, with t' - t > ttl, returns null, and after it the store holds no
\* entry under k's storage key and the index does not list that key.
C2_TtlExpiry ==
    \A k \in CacheKeys :
        ( /\ last.op = "getCache" /\ last.key = k
          /\ written[k].set
          /\ now - written[k].at > written[k].ttl )
        => /\ last.value = NullValue
           /\ entryOf(localStorage, k) = Null
           /\ ~indexLists(localStorage, k)

validEntry(ls, key) ==
    /\ entryOf(ls, key).kind = "json"
    /\ now - entryOf(ls, key).value.timestamp <= entryOf(ls, key).value.ttl

\* The step is one of invocation c.
stepOf(c) == calls'[c] # calls[c]
\* Invocation c enters fetchJsonWithCache in this step.
enters(c) == calls[c].pc = "idle" /\ calls'[c].pc \in {"fetch", "resolved", "rejected"}
\* The awaited fetch of invocation c fails, or succeeds, in this step.
fails(c) == calls'[c].failures = calls[c].failures + 1
succeeds(c) == calls[c].pc = "fetch" /\ calls'[c].pc = "resolved"

\* C3 (retry exhaustion): a call rejects only after exactly 3 network attempts
\* that all failed (transport error, 4xx or 5xx), and then with the error of
\* the last attempt; a call whose 3 attempts failed has rejected; and no step
\* of a call other than a successful one writes an entry under its cacheKey.
C3_RetryExhaustion ==
    /\ [](\A c \in Calls :
            /\ calls[c].pc = "rejected" =>
                  /\ calls[c].netAttempts = 3
                  /\ calls[c].failures = 3
                  /\ ~responseOk(calls[c].response)
                  /\ calls[c].lastError = attemptError(calls[c].response, 2)
            /\ calls[c].failures = 3 => calls[c].pc = "rejected"
            /\ calls[c].netAttempts <= 3)
    /\ [][\A c \in Calls :
            (stepOf(c) /\ calls'[c].pc # "resolved") =>
                entryOf(localStorage', calls'[c].cacheKey)
                    \in {entryOf(localStorage, calls'[c].cacheKey), Null}]_vars

C3_Witness ==
    \E c \in Calls : /\ calls[c].pc = "rejected"
                     /\ calls[c].response.status = 404
                     /\ calls[c].lastError.code = "RequestFailed"

\* C4 (retry then succeed): a call whose first 2 attempts failed and whose
\* third succeeds resolves with the payload of that third response after
\* exactly the delays 450 and 900; when it writes through (skipCache false,
\* which is what every caller passes) over an available store, the step that
\* resolves it leaves that payload under cacheKey.
C4_RetryThenSucceed ==
    /\ [](\A c \in Calls :
            (calls[c].pc = "resolved" /\ calls[c].failures = 2) =>
                /\ calls[c].netAttempts = 3
                /\ responseOk(calls[c].response)
                /\ calls[c].result = calls[c].response.body
                /\ calls[c].delays = <<450, 900>>)
    /\ [][\A c \in Calls :
            (succeeds(c) /\ calls[c].failures = 2 /\ ~calls[c].skipCache
                /\ isLocalStorageAvailable) =>
                /\ entryOf(localStorage', calls[c].cacheKey).kind = "json"
                /\ entryOf(localStorage', calls[c].cacheKey).value.data = calls'[c].result
                /\ indexLists(localStorage', calls[c].cacheKey)]_vars

C4_Witness ==
    \E c \in Calls : /\ calls[c].pc = "resolved"
                     /\ calls[c].failures = 2
                     /\ ~calls[c].skipCache
                     /\ entryOf(localStorage, calls[c].cacheKey).kind = "json"
                     /\ entryOf(localStorage, calls[c].cacheKey).value.data = calls[c].result

\* C5 (failure notification count): a call has emitted the failure toast
\* exactly once if it has rejected after its retries and never otherwise, and
\* no toast is emitted before the third attempt has failed.
C5_FailureToast ==
    \A c \in Calls :
        /\ calls[c].toasts = IF calls[c].pc = "rejected" THEN <<TOAST_FETCH_FAILED>> ELSE << >>
        /\ calls[c].toasts # << >> => calls[c].failures = 3

C5_Witness ==
    \E c, d \in Calls : /\ calls[c].pc = "rejected" /\ Len(calls[c].toasts) = 1
                        /\ calls[d].pc = "resolved" /\ calls[d].failures = 2
                        /\ calls[d].toasts = << >>

\* C6 (backoff and ordering): a call has at most one attempt in flight; the
\* delays it asks for are 450 after the first failure and 900 after the second
\* and none after the third; and an attempt after a failure starts only from
\* the sleep, with nothing in flight, once 450 * (number of failures so far)
\* ms have passed since that failure was observed.
C6_BackoffOrdering ==
    /\ [](\A c \in Calls :
            /\ calls[c].inflight <= 1
            /\ calls[c].delays = SubSeq(<<450, 900>>, 1, Len(calls[c].delays))
            /\ Len(calls[c].delays) = IF calls[c].pc = "rejected" THEN 2 ELSE calls[c].failures)
    /\ [][\A c \in Calls :
            /\ (fails(c) /\ calls'[c].pc = "sleep") => calls'[c].sleepFrom = now
            /\ (calls'[c].netAttempts = calls[c].netAttempts + 1 /\ calls[c].netAttempts >= 1) =>
                  /\ calls[c].pc = "sleep"
                  /\ calls[c].inflight = 0
                  /\ now >= calls[c].sleepFrom + 450 * calls[c].failures]_vars

C6_Witness ==
    \E c \in Calls : /\ calls[c].pc = "fetch"
                     /\ calls[c].netAttempts = 3
                     /\ calls[c].delays = <<450, 900>>

\* C7 (cache hit short-circuit): a call that enters fetchJsonWithCache with
\* skipCache false while the store holds a parseable, unexpired entry under
\* cacheKey resolves in that step with the entry's data, with no network
\* attempt, no delay and the store unchanged.
C7_CacheHitShortCircuit ==
    [][\A c \in Calls :
        (enters(c) /\ ~calls'[c].skipCache /\ validEntry(localStorage, calls'[c].cacheKey)) =>
            /\ calls'[c].pc = "resolved"
            /\ calls'[c].result = entryOf(localStorage, calls'[c].cacheKey).value.data
            /\ calls'[c].netAttempts = 0
            /\ calls'[c].delays = << >>
            /\ localStorage' = localStorage]_vars

\* C8 (write-through on success): with the store available, a call with
\* skipCache false that succeeds over the network at time t leaves under
\* cacheKey the entry {timestamp t, ttl, data} with its payload and its ttl
\* (CACHE_TTL for fetchGenres, which passes none) and the key in the index;
\* and a call for a cacheKey whose entry is within its ttl returns the entry's
\* data with no network attempt.
C8_WriteThrough ==
    [][\A c \in Calls :
        /\ (succeeds(c) /\ ~calls[c].skipCache /\ isLocalStorageAvailable) =>
              /\ entryOf(localStorage', calls[c].cacheKey) =
                    JSONstringify([timestamp |-> now, ttl |-> calls[c].ttl,
                                   data |-> calls'[c].result])
              /\ calls[c].fn = "fetchGenres" => calls[c].ttl = 600000
              /\ indexLists(localStorage', calls[c].cacheKey)
        /\ (enters(c) /\ ~calls'[c].skipCache /\ validEntry(localStorage, calls'[c].cacheKey)) =>
              /\ calls'[c].result = entryOf(localStorage, calls'[c].cacheKey).value.data
              /\ calls'[c].netAttempts = 0]_vars

\* C9 (skipCache bypass): a call with skipCache true starts a network attempt
\* when it enters, whatever the store holds, and no step of it changes the
\* store.
C9_SkipCacheBypass ==
    [][\A c \in Calls :
        /\ (enters(c) /\ calls'[c].skipCache) =>
              calls'[c].pc = "fetch" /\ calls'[c].netAttempts = 1
        /\ (stepOf(c) /\ calls'[c].skipCache) => localStorage' = localStorage]_vars

C9_Witness ==
    \E c \in Calls : /\ calls[c].skipCache
                     /\ calls[c].pc = "resolved"
                     /\ validEntry(localStorage, calls[c].cacheKey)
                     /\ entryOf(localStorage, calls[c].cacheKey).value.data # calls[c].result

credentialAbsent == TMDB_API_KEY \in {"", " YOUR_TMDB_API_KEY_HERE "}

----------------------------------------------------------------------------
(* The cache over a store with faults *)

\* The store holds an entry written by setCache under k's storage key.
live(ls, k) == entryOf(ls, k).kind = "json"
\* Every cache key that holds an entry is listed in the index record.
allListed(ls) == \A k \in CacheKeys : live(ls, k) => indexLists(ls, k)

\* C11 (corruption resilience): with the store available and no write
\* failing, getCache(k) on a key whose stored string is not valid JSON
\* returns null without raising, and after it that string is gone from the
\* store and k's storage key is not listed in the index.
C11_CorruptionResilience ==
    [][\A k \in StoreKeys :
        ( /\ isLocalStorageAvailable /\ quotaExceeded = {}
          /\ entryOf(localStorage, k) = Malformed
          /\ last'.op = "getCache" /\ last'.key = k )
        => /\ ~last'.threw
           /\ last'.value = NullValue
           /\ entryOf(localStorage', k) # Malformed
           /\ ~indexLists(localStorage', k)]_vars

\* C14 (index never omits a live key): no setCache, getCache or clearAllCache
\* call, whether or not a store write fails in it, leads from a state where
\* every key that holds an entry is listed in the index record to a state
\* where one is not.
C14_IndexListsLiveKeys ==
    [][( /\ last'.op \in {"setCache", "getCache", "clearAllCache"}
         /\ allListed(localStorage) )
       => allListed(localStorage')]_vars

\* C15 (bulk clear): with the store available, once clearAllCache() has
\* returned no key with the cache prefix is left in the store, whether the
\* index listed it or not, the index record is gone, getCache returns null
\* for every key, nothing was raised, and a second clearAllCache() would
\* leave the store as it is.
C15_BulkClear ==
    (last.op = "clearAllCache" /\ isLocalStorageAvailable) =>
        /\ ~last.threw
        /\ \A k \in DOMAIN localStorage : ~startsWithCachePrefix(k)
        /\ CACHE_INDEX \notin DOMAIN localStorage
        /\ \A k \in StoreKeys \cup KeyArgs :
               /\ ~getCacheThrows(localStorage, k)
               /\ getCache(localStorage, k).value = NullValue
        /\ clearAllCache(localStorage) = localStorage

C15_Witness ==
    /\ last.op = "clearAllCache" /\ isLocalStorageAvailable
    /\ "index" \in quotaExceeded
    /\ THEME_KEY \in DOMAIN localStorage

\* C12 (store unavailable degrades silently): when the probe failed, every
\* getCache returns null, no setCache, getCache or clearAllCache raises, no
\* step changes the store, every call that enters fetchJsonWithCache makes a
\* network attempt, and a call whose attempt succeeds resolves with the
\* payload fetched.
C12_StoreUnavailable ==
    /\ [](~isLocalStorageAvailable =>
            /\ ~last.threw
            /\ last.op = "getCache" => last.value = NullValue
            /\ \A k \in StoreKeys \cup KeyArgs, data \in Payloads, ttl \in TtlArgs :
                   /\ setCache(localStorage, k, data, ttl) = localStorage
                   /\ getCache(localStorage, k) = [value |-> NullValue, store |-> localStorage]
            /\ clearAllCache(localStorage) = localStorage
            /\ \A c \in Calls :
                   /\ calls[c].pc \in {"fetch", "sleep", "resolved", "rejected"}
                         => calls[c].netAttempts >= 1
                   /\ calls[c].pc = "resolved"
                         => /\ responseOk(calls[c].response)
                            /\ calls[c].result = calls[c].response.body
                   /\ calls[c].pc = "rejected" => calls[c].failures = MAX_RETRIES + 1)
    /\ [][~isLocalStorageAvailable =>
            /\ localStorage' = localStorage
            /\ \A c \in Calls : enters(c) => calls'[c].pc = "fetch" /\ calls'[c].inflight = 1]_vars

\* Two calls for the cache key of an entry the store still holds have both
\* been answered by the network, and the cache functions have been called.
C12_Witness ==
    /\ ~isLocalStorageAvailable
    /\ live(localStorage, "genres")
    /\ \A c \in Calls : /\ calls[c].cacheKey = "genres"
                         /\ calls[c].pc = "resolved"
                         /\ calls[c].netAttempts >= 1
    /\ written["genres"].set
    /\ last.op = "getCache" /\ last.key = "genres"

\* A network attempt of invocation c comes back with a 2xx response and a
\* JSON body in this step.
fetched(c) ==
    /\ calls[c].pc = "fetch" /\ stepOf(c)
    /\ responseOk(calls'[c].response) /\ calls'[c].response.json
\* After the step, the store does not hold the entry setCache builds for
\* invocation c's payload, or the index does not list its key.
writeFailed(c) ==
    \/ entryOf(localStorage', calls[c].cacheKey) #
          JSONstringify([timestamp |-> now, ttl |-> calls[c].ttl, data |-> calls'[c].response.body])
    \/ ~indexLists(localStorage', calls[c].cacheKey)

\* C13 (cache write is best-effort): when a network attempt of a call that
\* writes through succeeds and the entry write or the index update fails, the
\* call resolves in that step with the payload fetched: no further attempt, no
\* delay, no toast.
C13_BestEffortWrite ==
    [][\A c \in Calls :
        (fetched(c) /\ writeThrough(calls[c].skipCache) /\ writeFailed(c)) =>
            /\ calls'[c].pc = "resolved"
            /\ calls'[c].result = calls'[c].response.body
            /\ calls'[c].delays = calls[c].delays
            /\ calls'[c].toasts = calls[c].toasts]_vars

----------------------------------------------------------------------------
(* Concurrent calls *)

\* How many times the index lists k's storage key.
indexCount(ls, k) ==
    Cardinality({i \in 1..Len(indexOf(ls)) : indexOf(ls)[i] = buildStorageKey(k)})

\* C16 (no single-flight, last writer wins), for calls that write through
\* (skipCache false, which is what every caller passes) over an available
\* store: a call that misses the cache starts its own network attempt even
\* while another call for the same cacheKey is in flight or asleep, and a
\* step of one call changes nothing of the other; each call that succeeds
\* leaves its own payload and the time of its write under cacheKey, listed
\* once in the index; and the entry changes in no other step than such a
\* write, or its removal once expired: the last writer's entry stays.
C16_LastWriterWins ==
    /\ [][\A c, d \in Calls :
            /\ ( c # d /\ enters(c) /\ calls[d].pc \in {"fetch", "sleep"}
                 /\ calls[d].cacheKey = calls'[c].cacheKey )
               => /\ calls'[c].pc = "fetch"
                  /\ calls'[c].netAttempts = 1
                  /\ calls'[c].inflight = 1
            /\ (c # d /\ stepOf(c)) => calls'[d] = calls[d]]_vars
    /\ [][\A c \in Calls :
            (succeeds(c) /\ ~calls[c].skipCache /\ isLocalStorageAvailable) =>
                /\ entryOf(localStorage', calls[c].cacheKey) =
                      JSONstringify([timestamp |-> now, ttl |-> calls[c].ttl,
                                     data |-> calls'[c].result])
                /\ indexCount(localStorage', calls[c].cacheKey) = 1]_vars
    /\ [][\A k \in CacheKeys :
            entryOf(localStorage', k) # entryOf(localStorage, k) =>
                \/ \E c \in Calls : succeeds(c) /\ calls[c].cacheKey = k
                \/ /\ entryOf(localStorage', k) = Null
                   /\ now - entryOf(localStorage, k).value.timestamp
                         > entryOf(localStorage, k).value.ttl]_vars

\* Two overlapping calls for one cacheKey (the second entered before the
\* first had written, or it would have hit the cache) have both fetched and
\* succeeded with different payloads, and the entry holds the second one's.
C16_Witness ==
    /\ isLocalStorageAvailable
    /\ now < StartTime + CACHE_TTL
    /\ \A c \in Calls : /\ calls[c].pc = "resolved" /\ calls[c].netAttempts >= 1
                         /\ calls[c].cacheKey = "genres"
                         /\ ~calls[c].skipCache /\ calls[c].ttl = CACHE_TTL
    /\ calls[1].result = [type |-> "object", id |-> 1]
    /\ calls[2].result = [type |-> "number", id |-> 0]
    /\ entryOf(localStorage, "genres").value.data = calls[2].result
    /\ entryOf(localStorage, "genres").value.timestamp > StartTime
    /\ indexCount(localStorage, "genres") = 1

----------------------------------------------------------------------------
(* buildCacheKey(namespace, params) *)

\* A params object is the sequence of its [k, v] entries in insertion order
\* (what Object.entries returns); its names are distinct.  The scalar values:
\* the numbers 1 and 2, and the strings "1", "dune" and "1|query:1".
Namespaces == {"search", "genres"}
ParamNames == {"page", "query"}
Scalars == {[type |-> "number", n |-> 1], [type |-> "number", n |-> 2],
            [type |-> "string", s |-> "1"], [type |-> "string", s |-> "dune"],
            [type |-> "string", s |-> "1|query:1"]}
ParamEntries == {[k |-> name, v |-> value] : name \in ParamNames, value \in Scalars}
ParamMappings ==
    {<< >>} \cup {<<e>> : e \in ParamEntries}
            \cup {pair \in ParamEntries \X ParamEntries : pair[1].k # pair[2].k}

\* `${v}`: the string a template literal makes of a scalar.
templateString(v) ==
    CASE v.type = "string" -> v.s
      [] v.type = "number" /\ v.n = 1 -> "1"
      [] v.type = "number" /\ v.n = 2 -> "2"

\* a.localeCompare(b) on the parameter names of the model: negative, zero or
\* positive as a sorts before, with or after b.
collation(name) == CASE name = "page" -> 1 [] name = "query" -> 2
localeCompare(a, b) == collation(a) - collation(b)

\* Array.prototype.sort with ([a], [b]) => a.localeCompare(b): a stable sort.
insertSorted(sorted, e) ==
    LET before == SelectSeq(sorted, LAMBDA x : localeCompare(x.k, e.k) <= 0)
        after == SelectSeq(sorted, LAMBDA x : localeCompare(x.k, e.k) > 0)
    IN before \o <<e>> \o after

RECURSIVE sortEntriesFrom(_, _)
sortEntriesFrom(entries, i) ==
    IF i = 0 THEN << >> ELSE insertSorted(sortEntriesFrom(entries, i - 1), entries[i])

sortEntriesNone(entries) == entries
sortEntries(entries) == sortEntriesFrom(entries, Len(entries))

entryStringNameOnly(e) == e.k
\* ([k, v]) => `${k}:${v}`
entryString(e) == e.k \o ":" \o templateString(e.v)

\* parts.join(sep)
RECURSIVE join(_, _)
join(parts, sep) ==
    IF parts = << >> THEN ""
    ELSE IF Len(parts) = 1 THEN parts[1]
    ELSE parts[1] \o sep \o join(Tail(parts), sep)

buildCacheKey(namespace, params) ==
    LET sorted == sortEntries(params)
        paramString == join([i \in 1..Len(sorted) |-> entryString(sorted[i])], "|")
    IN namespace \o (IF paramString # "" THEN "::" \o paramString ELSE "")

\* buildCacheKey is called with a namespace and each of two params objects.
BuildKeys ==
    /\ ~keyCall.built
    /\ keyCall' = [keyCall EXCEPT !.built = TRUE,
                                  !.k1 = buildCacheKey(keyCall.namespace, keyCall.p1),
                                  !.k2 = buildCacheKey(keyCall.namespace, keyCall.p2)]
    /\ UNCHANGED <<now, isLocalStorageAvailable, TMDB_API_KEY, localStorage, calls, written,
                   last, quotaExceeded, uiVars>>

InitKeys ==
    /\ now = StartTime
    /\ isLocalStorageAvailable = TRUE
    /\ TMDB_API_KEY = "634f3424186067405c1368917c4aedf6"
    /\ localStorage = << >>
    /\ calls = [c \in Calls |-> Idle]
    /\ written = [k \in CacheKeys |-> NoWrite]
    /\ last = NoOp
    /\ quotaExceeded = {}
    /\ keyCall \in {[namespace |-> n, p1 |-> a, p2 |-> b, built |-> FALSE, k1 |-> "", k2 |-> ""] :
                       n \in Namespaces, a \in ParamMappings, b \in ParamMappings}
    /\ UiInit

SpecKeys == InitKeys /\ [][BuildKeys]_vars

\* The entries of a params object, its names, and its value for a name.
entriesOf(params) == {params[i] : i \in 1..Len(params)}
namesOf(params) == {params[i].k : i \in 1..Len(params)}
valueOf(params, name) == (CHOOSE e \in entriesOf(params) : e.k = name).v
\* No name or value of the object contains ':', '|' or '::'.
delimiterFree(params) ==
    \A e \in entriesOf(params) : e.v # [type |-> "string", s |-> "1|query:1"]

\* C17 (key determinism): two params objects with the same key/value pairs,
\* in whatever insertion orders, give the same key for a namespace, and an
\* empty params object gives the namespace alone.
C17_KeyDeterminism ==
    keyCall.built =>
        /\ entriesOf(keyCall.p1) = entriesOf(keyCall.p2) => keyCall.k1 = keyCall.k2
        /\ keyCall.p1 = << >> => keyCall.k1 = keyCall.namespace

C17_Witness ==
    /\ keyCall.built
    /\ keyCall.p1 # keyCall.p2
    /\ entriesOf(keyCall.p1) = entriesOf(keyCall.p2)
    /\ keyCall.k1 = "search::page:1|query:dune"

\* C18 as stated (key discrimination): two params objects over the same
\* names, free of delimiters, whose scalar values differ for some name give
\* different keys.
C18_KeyDiscrimination ==
    ( /\ keyCall.built
      /\ namesOf(keyCall.p1) = namesOf(keyCall.p2)
      /\ delimiterFree(keyCall.p1) /\ delimiterFree(keyCall.p2)
      /\ \E name \in namesOf(keyCall.p1) :
             valueOf(keyCall.p1, name) # valueOf(keyCall.p2, name) )
    => keyCall.k1 # keyCall.k2

\* C18 as amended: two params objects over the same names, free of
\* delimiters, whose values differ for some name in the string a template
\* literal makes of them give different keys.
C18_KeyDiscriminationByText ==
    ( /\ keyCall.built
      /\ namesOf(keyCall.p1) = namesOf(keyCall.p2)
      /\ delimiterFree(keyCall.p1) /\ delimiterFree(keyCall.p2)
      /\ \E name \in namesOf(keyCall.p1) :
             templateString(valueOf(keyCall.p1, name)) # templateString(valueOf(keyCall.p2, name)) )
    => keyCall.k1 # keyCall.k2

C18_Witness ==
    /\ keyCall.built
    /\ keyCall.p1 = <<[k |-> "query", v |-> [type |-> "string", s |-> "dune"]],
                      [k |-> "page", v |-> [type |-> "number", n |-> 1]]>>
    /\ keyCall.p2 = <<[k |-> "page", v |-> [type |-> "number", n |-> 2]],
                      [k |-> "query", v |-> [type |-> "string", s |-> "dune"]]>>
    /\ keyCall.k1 = "search::page:1|query:dune"
    /\ keyCall.k2 = "search::page:2|query:dune"

----------------------------------------------------------------------------
(* state.loadedMovies *)

MAX_LOADED_MOVIES == 300
MaxLoads == 4

\* A movie is its id; 0 is a movie whose id is falsy, NullMovie a null element
\* of the results array.
NullMovie == -1
\* The result pages of the model: two pages of 155 new movies each, and one
\* with a null, a movie without id, a movie twice and movies loaded before.
PageA == [i \in 1..155 |-> i]
PageB == [i \in 1..155 |-> 155 + i]
PageC == <<5, 0, NullMovie, 310, 5>>
Pages == {PageA, PageB, PageC, << >>}

reverse(seq) == [i \in 1..Len(seq) |-> seq[Len(seq) + 1 - i]]

capReachedLate(n) == n > MAX_LOADED_MOVIES
\* The loop stops once deduped.length < 300 is false.
capReached(n) == n >= MAX_LOADED_MOVIES

\* One pass of the loop body at index, on the loop's variables; the pass is
\* void once the loop condition deduped.length < 300 is false.
visit(source, index, loop) ==
    LET movie == source[index]
    IN IF capReached(Len(loop.deduped)) THEN loop
       ELSE IF movie = 0 THEN loop
       ELSE IF movie \in loop.seen THEN loop
       ELSE [deduped |-> Append(loop.deduped, movie), seen |-> loop.seen \cup {movie}]

\* for (index = source.length - 1; index >= 0 && deduped.length < 300; index -= 1):
\* the passes at the indexes from high down to low, in that order.
RECURSIVE dedupeFrom(_, _, _, _)
dedupeFrom(source, low, high, loop) ==
    IF low > high THEN loop
    ELSE IF low = high THEN visit(source, high, loop)
    ELSE LET mid == (low + high) \div 2
             upper == dedupeFrom(source, mid + 1, high, loop)
         IN IF capReached(Len(upper.deduped)) THEN upper
            ELSE dedupeFrom(source, low, mid, upper)

\* updateLoadedMovies(movies, { append }): the new state.loadedMovies.
updateLoadedMovies(movies, append) ==
    LET sanitized == SelectSeq(movies, LAMBDA m : m # NullMovie)
        source == IF append THEN loadedMovies \o sanitized ELSE sanitized
    IN IF source = << >> THEN << >>
       ELSE reverse(dedupeFrom(source, 1, Len(source), [deduped |-> << >>, seen |-> {}]).deduped)

LoadMovies(movies, append) ==
    /\ loadCalls < MaxLoads
    /\ loadedMovies' = updateLoadedMovies(movies, append)
    /\ loads' = (IF append THEN loads ELSE << >>) \o movies
    /\ loadCalls' = loadCalls + 1
    /\ UNCHANGED <<now, isLocalStorageAvailable, TMDB_API_KEY, localStorage, calls, written,
                   last, quotaExceeded, keyVars, plannerVars, feedVars>>

resetPagination ==
    /\ loadedMovies # << >>
    /\ loadedMovies' = << >>
    /\ loads' = << >>
    /\ UNCHANGED <<now, isLocalStorageAvailable, TMDB_API_KEY, localStorage, calls, written,
                   last, quotaExceeded, keyVars, loadCalls, plannerVars, feedVars>>

InitMovies ==
    /\ now = StartTime
    /\ isLocalStorageAvailable = TRUE
    /\ TMDB_API_KEY = "634f3424186067405c1368917c4aedf6"
    /\ localStorage = << >>
    /\ calls = [c \in Calls |-> Idle]
    /\ written = [k \in CacheKeys |-> NoWrite]
    /\ last = NoOp
    /\ quotaExceeded = {}
    /\ keyCall = NoKeyCall
    /\ UiInit

NextMovies ==
    \/ \E movies \in Pages, append \in BOOLEAN : LoadMovies(movies, append)
    \/ resetPagination

SpecMovies == InitMovies /\ [][NextMovies]_vars

\* The ids of the movies loaded since the list was last replaced, and the
\* place of the last load of each.
loadedIds == {loads[i] : i \in 1..Len(loads)} \ {0, NullMovie}
lastLoad(id) ==
    LET at == {i \in 1..Len(loads) : loads[i] = id}
    IN CHOOSE i \in at : \A j \in at : j <= i

\* C19 (loaded-movie cap): state.loadedMovies holds at most 300 movies, no id
\* twice; each was loaded since the list was last replaced; they stand in the
\* order of their last load; and a loaded movie is missing only when 300 are
\* held that were all loaded after it.
C19_LoadedMovieCap ==
    LET kept == {loadedMovies[i] : i \in 1..Len(loadedMovies)} IN
    /\ Len(loadedMovies) <= 300
    /\ Cardinality(kept) = Len(loadedMovies)
    /\ kept \subseteq loadedIds
    /\ \A i \in 1..(Len(loadedMovies) - 1) :
           lastLoad(loadedMovies[i]) < lastLoad(loadedMovies[i + 1])
    /\ \A id \in loadedIds \ kept :
           /\ Len(loadedMovies) = 300
           /\ lastLoad(id) < lastLoad(loadedMovies[1])

\* The cap was hit: 310 movies were loaded, then a page that loads movie 5
\* again; the oldest are dropped and movie 5 is the newest.
C19_Witness ==
    /\ Len(loadedMovies) = 300
    /\ Cardinality(loadedIds) = 310
    /\ loadedMovies[1] = 12
    /\ loadedMovies[299] = 310
    /\ loadedMovies[300] = 5

----------------------------------------------------------------------------
(* The session planner *)

MAX_PLANNER_ITEMS == 12
MaxPlannerOps == 3

plannerKey == "movievault_session_plan"

\* The movies handed to queueMovie (0: a movie without id), the ids handed to
\* removePlannerItem, the indexes handed to reorderPlannerItems, and the
\* runtimes getMovieRuntime resolves with.
NaN == -99
QueueArgs == {0, 1, 3, 13}
RemoveArgs == {1, 3, 13}
IndexArgs == {NaN, -1, 0, 1, 12}
Runtimes == {0, 95}

planItem(id, runtime) == [id |-> id, runtime |-> runtime]
\* The plans found in the store at page load: none, a short one, a full one.
StoredPlans ==
    {<< >>, <<planItem(1, 95), planItem(2, 0)>>, [i \in 1..MAX_PLANNER_ITEMS |-> planItem(i, 95)]}

\* getSessionPlan()
getSessionPlan(ls) ==
    LET raw == storageGet(ls, plannerKey)
    IN IF ~TruthyRaw(raw) THEN << >>
       ELSE IF ~JSONparses(raw) THEN << >>
       ELSE IF isArray(JSONparse(raw)) THEN JSONparse(raw).items
       ELSE << >>

\* saveSessionPlan(plan)
saveSessionPlan(ls, plan) == storageSet(ls, plannerKey, JSONstringify(Array(plan)))

\* clearSessionPlan()
clearSessionPlan(ls) == storageRemove(ls, plannerKey)

persistPlannerQueueNever(ls, q) == ls
\* persistPlannerQueue(), on the queue q
persistPlannerQueue(ls, q) == saveSessionPlan(ls, q)

\* The store refuses the write persistPlannerQueue makes.
persistRefused == isLocalStorageAvailable /\ setItemThrows(plannerKey)

\* hydrateSessionPlan(): the queue after page load.
hydrateSessionPlan(ls) ==
    LET stored == getSessionPlan(ls)
    IN [i \in 1..Len(stored) |-> planItem(stored[i].id, stored[i].runtime)]

\* queue.findIndex((item) => Number(item.id) === Number(movieId)), 0-based.
findIndex(q, movieId) ==
    LET at == {i \in 1..Len(q) : q[i].id = movieId}
    IN IF at = {} THEN -1 ELSE (CHOOSE i \in at : \A j \in at : i <= j) - 1

\* queue.splice(idx, 1) and queue.splice(idx, 0, item), idx 0-based.
spliceOut(q, idx) == SubSeq(q, 1, idx) \o SubSeq(q, idx + 2, Len(q))
spliceIn(q, idx, item) == SubSeq(q, 1, idx) \o <<item>> \o SubSeq(q, idx + 1, Len(q))

min(a, b) == IF a < b THEN a ELSE b

NoToast == [kind |-> "none", id |-> 0, idx |-> 0, removed |-> planItem(0, 0), previous |-> << >>]
QueueToast(id) == [NoToast EXCEPT !.kind = "queue", !.id = id]
RemoveToast(idx, removed) == [NoToast EXCEPT !.kind = "remove", !.idx = idx, !.removed = removed]
ClearToast(previous) == [NoToast EXCEPT !.kind = "clear", !.previous = previous]

plannerRest == <<now, isLocalStorageAvailable, TMDB_API_KEY, calls, written, last,
                 quotaExceeded, keyVars, movieVars, feedVars>>

\* The body of removePlannerItem(movieId), shared by its callers; keep is the
\* set of toasts that stay on screen.
removeItem(movieId, keep) ==
    LET idx == findIndex(queue, movieId)
    IN IF idx = -1
       THEN /\ toasts' = keep
            /\ UNCHANGED <<queue, localStorage, planRefused>>
       ELSE /\ queue' = spliceOut(queue, idx)
            /\ localStorage' = persistPlannerQueue(localStorage, queue')
            /\ planRefused' = (planRefused \/ persistRefused)
            /\ toasts' = keep \cup {RemoveToast(idx, queue[idx + 1])}

\* queueMovie(movie) up to its await: the checks, and the call of getMovieRuntime.
QueueMovie(movie) ==
    /\ planOps < MaxPlannerOps
    /\ planOps' = planOps + 1
    /\ IF movie = 0 \/ findIndex(queue, movie) # -1 \/ Len(queue) >= MAX_PLANNER_ITEMS
       THEN /\ plannerOp' = "queueMovie"
            /\ UNCHANGED pending
       ELSE /\ pending' = [pending EXCEPT ![movie] = @ + 1]
            /\ UNCHANGED plannerOp
    /\ UNCHANGED <<queue, toasts, localStorage, planRefused>>
    /\ UNCHANGED plannerRest

\* queueMovie(movie) from the await on: getMovieRuntime has resolved.
QueueMovieResume(movie, runtime) ==
    /\ pending[movie] > 0
    /\ pending' = [pending EXCEPT ![movie] = @ - 1]
    /\ queue' = Append(queue, planItem(movie, runtime))
    /\ localStorage' = persistPlannerQueue(localStorage, queue')
    /\ planRefused' = (planRefused \/ persistRefused)
    /\ toasts' = toasts \cup {QueueToast(movie)}
    /\ plannerOp' = "queueMovie"
    /\ UNCHANGED planOps
    /\ UNCHANGED plannerRest

RemovePlannerItem(movieId) ==
    /\ planOps < MaxPlannerOps
    /\ planOps' = planOps + 1
    /\ removeItem(movieId, toasts)
    /\ plannerOp' = "removePlannerItem"
    /\ UNCHANGED pending
    /\ UNCHANGED plannerRest

ClearPlannerQueue ==
    /\ planOps < MaxPlannerOps
    /\ planOps' = planOps + 1
    /\ IF Len(queue) = 0
       THEN UNCHANGED <<queue, localStorage, toasts, planRefused>>
       ELSE /\ queue' = << >>
            /\ localStorage' = clearSessionPlan(persistPlannerQueue(localStorage, queue'))
            /\ planRefused' = (planRefused \/ persistRefused)
            /\ toasts' = toasts \cup {ClearToast(queue)}
    /\ plannerOp' = "clearPlannerQueue"
    /\ UNCHANGED pending
    /\ UNCHANGED plannerRest

ReorderPlannerItems(fromIndex, toIndex) ==
    /\ planOps < MaxPlannerOps
    /\ planOps' = planOps + 1
    /\ IF \/ fromIndex = NaN
          \/ toIndex = NaN
          \/ fromIndex < 0
          \/ toIndex < 0
          \/ fromIndex >= Len(queue)
          \/ toIndex >= Len(queue)
          \/ fromIndex = toIndex
       THEN UNCHANGED <<queue, localStorage, planRefused>>
       ELSE /\ queue' = spliceIn(spliceOut(queue, fromIndex), toIndex, queue[fromIndex + 1])
            /\ localStorage' = persistPlannerQueue(localStorage, queue')
            /\ planRefused' = (planRefused \/ persistRefused)
    /\ plannerOp' = "reorderPlannerItems"
    /\ UNCHANGED <<toasts, pending>>
    /\ UNCHANGED plannerRest

\* A click on the Undo button of a toast: its handler runs, the toast goes.
Undo(toast) ==
    /\ toast \in toasts
    /\ CASE toast.kind = "queue" ->
              /\ removeItem(toast.id, toasts \ {toast})
              /\ plannerOp' = "undoQueueMovie"
         [] toast.kind = "remove" ->
              /\ queue' = spliceIn(queue, min(toast.idx, Len(queue)), toast.removed)
              /\ localStorage' = persistPlannerQueue(localStorage, queue')
              /\ planRefused' = (planRefused \/ persistRefused)
              /\ toasts' = toasts \ {toast}
              /\ plannerOp' = "undoRemovePlannerItem"
         [] toast.kind = "clear" ->
              /\ queue' = toast.previous
              /\ localStorage' = persistPlannerQueue(localStorage, queue')
              /\ planRefused' = (planRefused \/ persistRefused)
              /\ toasts' = toasts \ {toast}
              /\ plannerOp' = "undoClearPlannerQueue"
    /\ UNCHANGED <<pending, planOps>>
    /\ UNCHANGED plannerRest

\* The store comes to refuse writes, or accepts them again.
PlanQuota(q) ==
    /\ q # quotaExceeded
    /\ quotaExceeded' = q
    /\ UNCHANGED <<now, isLocalStorageAvailable, TMDB_API_KEY, localStorage, calls, written,
                   last, keyVars, uiVars>>

InitPlanner ==
    /\ now = StartTime
    /\ isLocalStorageAvailable \in BOOLEAN
    /\ TMDB_API_KEY = "634f3424186067405c1368917c4aedf6"
    /\ \E plan \in StoredPlans :
           localStorage = IF isLocalStorageAvailable /\ plan # << >>
                          THEN (plannerKey :> JSONstringify(Array(plan)))
                          ELSE << >>
    /\ calls = [c \in Calls |-> Idle]
    /\ written = [k \in CacheKeys |-> NoWrite]
    /\ last = NoOp
    /\ quotaExceeded = {}
    /\ keyCall = NoKeyCall
    /\ loadedMovies = << >>
    /\ loads = << >>
    /\ loadCalls = 0
    /\ queue = hydrateSessionPlan(localStorage)
    /\ toasts = {}
    /\ pending = [movie \in QueueArgs |-> 0]
    /\ plannerOp = "none"
    /\ planOps = 0
    /\ planRefused = FALSE
    /\ FeedInit

NextPlanner ==
    \/ \E movie \in QueueArgs : QueueMovie(movie)
    \/ \E movie \in QueueArgs, runtime \in Runtimes : QueueMovieResume(movie, runtime)
    \/ \E movieId \in RemoveArgs : RemovePlannerItem(movieId)
    \/ ClearPlannerQueue
    \/ \E fromIndex \in IndexArgs, toIndex \in IndexArgs : ReorderPlannerItems(fromIndex, toIndex)
    \/ \E toast \in toasts : Undo(toast)
    \/ \E q \in {{}, {"entry"}} : PlanQuota(q)

SpecPlanner == InitPlanner /\ [][NextPlanner]_vars

planIds(plan) == [i \in 1..Len(plan) |-> plan[i].id]
planInSync == planIds(getSessionPlan(localStorage)) = planIds(queue)

----------------------------------------------------------------------------
(* The retry loop under fair scheduling *)

\* Time passes while a timer of sleep is pending.
TimerTick ==
    /\ \E c \in Calls : calls[c].pc = "sleep" /\ now < calls[c].sleepFrom + calls[c].sleepMs
    /\ now' = now + BACKOFF_MS
    /\ last' = NoOp
    /\ UNCHANGED <<isLocalStorageAvailable, TMDB_API_KEY, localStorage, calls, written,
                   quotaExceeded, keyVars, uiVars>>

\* The outcomes of a fetch told apart by the loop: a rejection, a response
\* that is not ok, a response with a JSON body.
LiveResponses ==
    {resp \in Responses : resp.status # 404 /\ resp.body # [type |-> "number", id |-> 0]}
LiveOptions == {DefaultOptions, [ttl |-> CACHE_TTL, skipCache |-> TRUE]}

NextLive ==
    \/ \E c \in Calls, fn \in ApiFns, query \in Queries, opts \in LiveOptions :
          ApiCall(c, fn, query, opts)
    \/ \E c \in Calls, resp \in LiveResponses : Respond(c, resp)
    \/ \E c \in Calls : Wake(c)
    \/ SetCacheOp("index", [type |-> "object", id |-> 1], CACHE_TTL)
    \/ TimerTick

\* Every fetch settles (the browser resolves or rejects the promise), every
\* timer set by sleep fires, and time passes.
Fairness ==
    /\ \A c \in Calls : WF_vars(\E resp \in LiveResponses : Respond(c, resp))
    /\ \A c \in Calls : WF_vars(Wake(c))
    /\ WF_vars(TimerTick)

SpecLive == InitFaults /\ [][NextLive]_vars /\ Fairness

running(c) == calls[c].pc \in {"fetch", "sleep"}
settled(c) == calls[c].pc \in {"resolved", "rejected"}

\* C21 (retry loop always terminates): a call of fetchJsonWithCache makes at
\* most MAX_RETRIES + 1 network attempts and asks for at most MAX_RETRIES
\* delays; the attempt counter is the number of iterations completed (one less
\* than the attempts started while an iteration runs, equal to it once the
\* call has settled), and a step changes it by one at most; and with every
\* fetch and every timer completing, a running call settles.
C21_RetryTerminates ==
    /\ [](\A c \in Calls :
            /\ calls[c].netAttempts <= MAX_RETRIES + 1
            /\ Len(calls[c].delays) <= MAX_RETRIES
            /\ running(c) => calls[c].attempt = calls[c].netAttempts - 1
            /\ settled(c) => calls[c].attempt = calls[c].netAttempts)
    /\ [][\A c \in Calls :
            running(c) => calls'[c].attempt \in {calls[c].attempt, calls[c].attempt + 1}]_vars
    /\ \A c \in Calls : running(c) ~> settled(c)

\* Both calls went through all three attempts and both delays: one rejected on
\* the third failure, the other resolved on the third attempt.
C21_Witness ==
    /\ calls[1].pc = "rejected" /\ calls[1].netAttempts = MAX_RETRIES + 1
    /\ Len(calls[1].delays) = MAX_RETRIES /\ calls[1].attempt = MAX_RETRIES + 1
    /\ calls[2].pc = "resolved" /\ calls[2].netAttempts = MAX_RETRIES + 1
    /\ Len(calls[2].delays) = MAX_RETRIES /\ calls[2].attempt = MAX_RETRIES + 1

----------------------------------------------------------------------------
(* The cache layer over any content of the store *)

\* C22 (cache layer never raises): whatever the store holds under the key's
\* storage key and under the index key, a call of getCache or setCache
\* returns normally.
C22_CacheNeverRaises ==
    [][last'.op \in {"getCache", "setCache"} => ~last'.threw]_vars

\* The stored string under k's storage key is an entry object of setCache.
isEntry(raw) ==
    /\ raw.kind = "json"
    /\ {"timestamp", "ttl", "data"} \subseteq DOMAIN raw.value

\* C23 (entries are never mutated in place): a getCache(k) call leaves what
\* is stored under k's storage key unchanged or deletes it; the entry under a
\* key changes to another entry only by a setCache call on that key; and a
\* getCache call that returns the data of an entry written at t with ttl does
\* so no later than t + ttl.
C23_NoMutationInPlace ==
    [][\A k \in StoreKeys \ {""} :
        /\ (last'.op = "getCache" /\ last'.key = k /\ isEntry(entryOf(localStorage, k)))
              => \/ entryOf(localStorage', k) = entryOf(localStorage, k)
                 \/ entryOf(localStorage', k) = Null
        /\ (isEntry(entryOf(localStorage', k))
              /\ entryOf(localStorage', k) # entryOf(localStorage, k))
              => (last'.op = "setCache" /\ last'.key = k)
        /\ (last'.op = "getCache" /\ last'.key = k /\ ~last'.threw
              /\ last'.value # NullValue)
              => /\ isEntry(entryOf(localStorage, k))
                 /\ now <= entryOf(localStorage, k).value.timestamp
                              + entryOf(localStorage, k).value.ttl]_vars

----------------------------------------------------------------------------
(* The movie feed: loadMovies, infinite scroll, prefetch *)

INFINITE_SCROLL_COOLDOWN == 250
MaxPages == 3
MaxFeedChanges == 2
MaxTypedChanges == 3
MaxFeedTicks == 1
MaxPrefetches == 2

\* The inputs of the handlers: the category of a nav button, the selection
\* committed in the genre filter, the title picked in the search overlay, the
\* text typed in the search field.
NavCategories == {"trending", "popular"}
GenreSelections == {<< >>, <<"28">>}
SearchTitles == {"Dune"}
TypedTexts == {"", "Dune", "Alien"}

categoryFetchers == {"trending", "popular", "top_rated", "upcoming"}

\* query.trim().toLowerCase() on the texts of the model.
trimLower(query) ==
    CASE query = "Dune" -> "dune"
      [] query = "Alien" -> "alien"
      [] query = "" -> ""

\* getGenreSignature(): the selected ids sorted and joined (here one id at most).
getGenreSignature(st) ==
    IF Len(st.selectedGenres) = 0 THEN "all" ELSE join(st.selectedGenres, ",")

\* getBrowseSignature()
getBrowseSignature(st) ==
    st.category \o "|" \o getGenreSignature(st) \o "|" \o trimLower(st.searchQuery)

\* The API call loadMovies and the prefetch callback make for a page, from
\* the selection held in state when they run.
requestOf(st, page) ==
    IF st.category = "search"
    THEN [fn |-> "searchMovies", arg |-> st.searchQuery, page |-> page]
    ELSE IF st.category = "genre" /\ Len(st.selectedGenres) > 0
    THEN [fn |-> "fetchMoviesByGenre", arg |-> join(st.selectedGenres, ","), page |-> page]
    ELSE [fn |-> IF st.category \in categoryFetchers THEN st.category ELSE "trending",
          arg |-> "", page |-> page]

\* The movie a page of a feed holds: one per page, its id telling feed and page.
feedOf(request) ==
    CASE request.fn = "trending" -> 1
      [] request.fn = "popular" -> 2
      [] request.fn = "fetchMoviesByGenre" -> 3
      [] request.fn = "searchMovies" /\ request.arg = "Dune" -> 4
      [] request.fn = "searchMovies" /\ request.arg = "Alien" -> 5
      [] OTHER -> 6
movieOf(request) == 10 * feedOf(request) + request.page
pageOf(movie) == movie % 10

\* What the awaited API call settles with: the page asked for, or an error;
\* searchMovies with an empty query resolves with the empty page.
FeedResponses(request) ==
    IF request.fn = "searchMovies" /\ request.arg = ""
    THEN {[ok |-> TRUE, request |-> request, total_pages |-> 0, results |-> << >>]}
    ELSE {[ok |-> TRUE, request |-> request, total_pages |-> MaxPages,
           results |-> <<movieOf(request)>>],
          [NoPage EXCEPT !.request = request]}

clearPrefetch(st) == [st EXCEPT !.prefetch = NoPrefetch, !.prefetchToken = NoToken]

\* resetPagination(), on state; state.loadedMovies = [] is done by the caller.
resetPaginationOn(st) ==
    clearPrefetch([st EXCEPT !.page = 1, !.totalPages = Infinity, !.lastScrollLoad = 0])

\* `${signature}|${nextPage}|${Date.now()}`: two tokens are the same string
\* exactly when the three parts are the same.
tokenOf(signature, nextPage) == [signature |-> signature, nextPage |-> nextPage, at |-> now]

\* schedulePrefetch(signature): state and the callbacks handed to runIdle after it.
schedulePrefetch(st, callbacks, signature) ==
    LET nextPage == st.page + 1
        token == tokenOf(signature, nextPage)
    IN IF ~isFinite(st.totalPages) \/ nextPage > st.totalPages
       THEN [state |-> clearPrefetch(st), idle |-> callbacks]
       ELSE IF /\ st.prefetch # NoPrefetch
               /\ st.prefetch.signature = signature
               /\ st.prefetch.page = nextPage
       THEN [state |-> st, idle |-> callbacks]
       ELSE [state |-> [st EXCEPT !.prefetchToken = token],
             idle |-> callbacks \cup {[signature |-> signature, nextPage |-> nextPage,
                                       token |-> token, resets |-> feedLog.resets]}]

\* loadMovies from the response on, when nothing throws: totalPages,
\* updateLoadedMovies, renderMovies, schedulePrefetch, and the finally.
afterResponse(st, response, append, signature) ==
    LET paged == [st EXCEPT !.totalPages =
                     IF response.total_pages # 0 THEN response.total_pages ELSE @]
        appendMode == append \/ paged.page > 1
        scheduled == schedulePrefetch(paged, idle, signature)
    IN [state |-> [scheduled.state EXCEPT !.loading = FALSE],
        idle |-> scheduled.idle,
        loaded |-> updateLoadedMovies(response.results, appendMode),
        grid |-> IF appendMode THEN grid \o response.results ELSE response.results]

feedRest == <<isLocalStorageAvailable, TMDB_API_KEY, localStorage, calls, written, last,
              quotaExceeded, keyVars, loads, loadCalls, plannerVars>>

\* handleMissingApiKey(), on state and the flag missingApiKeyHandled.
handleMissingApiKey(st) ==
    IF st.missingApiKeyHandled THEN st
    ELSE [clearPrefetch(st) EXCEPT !.missingApiKeyHandled = TRUE, !.loading = FALSE,
                                   !.page = 1, !.totalPages = 0]

\* The handlers are attached by initializeApp, in its part before the awaits;
\* that part changes state only when the key is missing.
attached == hasTmdbApiKey \/ feedLog.started

busyNever(st) == FALSE
\* if (state.loading) return;
busy(st) == st.loading

\* loadMovies({ append }) up to its await, or to its end when it takes the
\* response from state.prefetch; st is state as the handler left it, reset
\* tells that the handler called resetPagination (which empties
\* state.loadedMovies and clears state.prefetch), log is the history so far.
loadMovies(st, append, initial, reset, log) ==
    LET signature == getBrowseSignature(st)
        prefetchMatch == /\ st.prefetch # NoPrefetch
                         /\ st.prefetch.signature = signature
                         /\ st.prefetch.page = st.page
        loadedNow == IF reset THEN << >> ELSE loadedMovies
        done == afterResponse(clearPrefetch([st EXCEPT !.loading = TRUE]),
                              st.prefetch.data, append, signature)
    IN IF ~hasTmdbApiKey
       THEN /\ state' = handleMissingApiKey(st)
            /\ loadedMovies' = loadedNow
            /\ feedLog' = log
            /\ UNCHANGED <<idle, awaiting, grid>>
       ELSE IF busy(st) \/ st.page > st.totalPages
       THEN /\ state' = st
            /\ loadedMovies' = loadedNow
            /\ feedLog' = [log EXCEPT !.busy = busy(st),
                                      !.observing = @ \/ initial]
            /\ UNCHANGED <<idle, awaiting, grid>>
       ELSE IF prefetchMatch
       THEN /\ state' = done.state
            /\ idle' = done.idle
            /\ loadedMovies' = done.loaded
            /\ grid' = done.grid
            /\ feedLog' = [log EXCEPT !.fromPrefetch = TRUE,
                                      !.wanted = requestOf(st, st.page),
                                      !.got = st.prefetch.data.request,
                                      !.observing = @ \/ initial]
            /\ UNCHANGED awaiting
       ELSE /\ state' = [st EXCEPT !.loading = TRUE]
            /\ awaiting' = Append(awaiting, [signature |-> signature, append |-> append,
                                             request |-> requestOf(st, st.page),
                                             initial |-> initial])
            /\ loadedMovies' = loadedNow
            /\ feedLog' = log
            /\ UNCHANGED <<idle, grid>>

\* The history a handler starts from.
logOf == [feedLog EXCEPT !.busy = FALSE, !.fromPrefetch = FALSE,
                         !.wanted = NoRequest, !.got = NoRequest]
\* The history a selection handler starts from.
changed == [logOf EXCEPT !.changes = @ + 1, !.resets = @ + 1, !.raced = state.loading]
\* The prefetches under way are fewer than the bound of the model.
roomForPrefetch == Cardinality(idle) + Cardinality(fetches) < MaxPrefetches

\* initializeApp: await loadMovies(), after which the observer is started.
InitializeApp ==
    /\ ~feedLog.started
    /\ IF ~hasTmdbApiKey
       THEN /\ state' = handleMissingApiKey(state)
            /\ feedLog' = [logOf EXCEPT !.started = TRUE]
            /\ UNCHANGED <<idle, awaiting, grid, loadedMovies>>
       ELSE loadMovies(state, FALSE, TRUE, FALSE, [logOf EXCEPT !.started = TRUE])
    /\ UNCHANGED <<now, fetches>>
    /\ UNCHANGED feedRest

\* The click handler of a nav button.
AttachNavClick(category) ==
    /\ attached
    /\ feedLog.changes < MaxFeedChanges
    /\ roomForPrefetch
    /\ loadMovies(resetPaginationOn([state EXCEPT !.category = category,
                                                  !.selectedGenres = << >>,
                                                  !.searchQuery = ""]),
                  FALSE, FALSE, TRUE, changed)
    /\ UNCHANGED <<now, fetches>>
    /\ UNCHANGED feedRest

\* commitSelection(nextSelection) of the genre filter.
CommitSelection(nextSelection) ==
    LET picked == [state EXCEPT !.selectedGenres = nextSelection]
        cleared == resetPaginationOn([picked EXCEPT !.searchQuery = ""])
        next == IF Len(nextSelection) > 0 THEN [cleared EXCEPT !.category = "genre"]
                ELSE IF cleared.category \in {"genre", "search"}
                THEN [cleared EXCEPT !.category = DEFAULT_CATEGORY]
                ELSE cleared
    IN
    /\ attached
    /\ feedLog.changes < MaxFeedChanges
    /\ roomForPrefetch
    /\ IF getGenreSignature(state) = getGenreSignature(picked)
       THEN /\ state' = picked
            /\ feedLog' = [logOf EXCEPT !.changes = @ + 1]
            /\ UNCHANGED <<idle, awaiting, grid, loadedMovies>>
       ELSE loadMovies(next, FALSE, FALSE, TRUE, changed)
    /\ UNCHANGED <<now, fetches>>
    /\ UNCHANGED feedRest

\* handleSearchSelection(item)
HandleSearchSelection(title) ==
    /\ attached
    /\ feedLog.changes < MaxFeedChanges
    /\ roomForPrefetch
    /\ loadMovies(resetPaginationOn([state EXCEPT !.searchQuery = title,
                                                  !.category = "search",
                                                  !.selectedGenres = << >>]),
                  FALSE, FALSE, TRUE, changed)
    /\ UNCHANGED <<now, fetches>>
    /\ UNCHANGED feedRest

\* The input listener of the search field: state.searchQuery = value.
SearchInput(value) ==
    /\ attached
    /\ feedLog.changes < MaxTypedChanges
    /\ value # state.searchQuery
    /\ state' = [state EXCEPT !.searchQuery = value]
    /\ feedLog' = [logOf EXCEPT !.changes = @ + 1]
    /\ UNCHANGED <<now, idle, fetches, awaiting, grid, loadedMovies>>
    /\ UNCHANGED feedRest

\* maybeLoadMore(): the sentinel came into view.
MaybeLoadMore ==
    /\ feedLog.observing
    /\ state.page < MaxPages
    /\ roomForPrefetch
    /\ IF \/ state.loading
          \/ state.page >= state.totalPages
          \/ now - state.lastScrollLoad < INFINITE_SCROLL_COOLDOWN
       THEN /\ feedLog' = [logOf EXCEPT !.busy = state.loading]
            /\ UNCHANGED <<state, idle, awaiting, grid, loadedMovies>>
       ELSE loadMovies([state EXCEPT !.page = @ + 1, !.lastScrollLoad = now],
                       TRUE, FALSE, FALSE, logOf)
    /\ UNCHANGED <<now, fetches>>
    /\ UNCHANGED feedRest

\* The awaited API call of a loadMovies call settles: the rest of the try,
\* the catch, the finally.
LoadSettles(i, response) ==
    LET call == awaiting[i]
        done == afterResponse(state, response, call.append, call.signature)
        log == [logOf EXCEPT !.observing = @ \/ call.initial]
    IN
    /\ i \in 1..Len(awaiting)
    /\ response \in FeedResponses(call.request)
    /\ awaiting' = SubSeq(awaiting, 1, i - 1) \o SubSeq(awaiting, i + 1, Len(awaiting))
    /\ IF response.ok
       THEN /\ state' = done.state
            /\ idle' = done.idle
            /\ loadedMovies' = done.loaded
            /\ grid' = done.grid
            /\ feedLog' = [log EXCEPT !.wanted = requestOf(state, state.page),
                                      !.got = response.request]
       ELSE /\ state' = [(IF call.append THEN state ELSE clearPrefetch(state))
                            EXCEPT !.loading = FALSE]
            /\ feedLog' = [log EXCEPT !.failed = TRUE]
            /\ UNCHANGED <<idle, loadedMovies, grid>>
    /\ UNCHANGED <<now, fetches>>
    /\ UNCHANGED feedRest

\* if (state.prefetchToken === token) state.prefetchToken = null;
dropToken(st, token) == IF st.prefetchToken = token THEN [st EXCEPT !.prefetchToken = NoToken] ELSE st

\* The callback handed to runIdle runs, up to its await.
IdleRuns(callback) ==
    /\ callback \in idle
    /\ idle' = idle \ {callback}
    /\ IF state.category = "search" /\ trimLower(state.searchQuery) = ""
       THEN /\ state' = dropToken([dropToken(state, callback.token)
                                       EXCEPT !.prefetch = NoPrefetch], callback.token)
            /\ UNCHANGED fetches
       ELSE /\ fetches' = fetches \cup
                  {[callback |-> callback, request |-> requestOf(state, callback.nextPage)]}
            /\ UNCHANGED state
    /\ feedLog' = logOf
    /\ UNCHANGED <<now, awaiting, grid, loadedMovies>>
    /\ UNCHANGED feedRest

\* The awaited API call of a prefetch callback settles.
PrefetchSettles(fetch, response) ==
    LET token == fetch.callback.token
        stored == [signature |-> fetch.callback.signature, page |-> fetch.callback.nextPage,
                   data |-> response]
    IN
    /\ fetch \in fetches
    /\ response \in FeedResponses(fetch.request)
    /\ fetches' = fetches \ {fetch}
    /\ IF response.ok
       THEN IF state.prefetchToken # token
            THEN UNCHANGED <<state, feedLog>>
            ELSE /\ state' = dropToken([state EXCEPT !.prefetch = stored], token)
                 /\ feedLog' = [logOf EXCEPT
                                   !.staleStored = @ \/ fetch.callback.resets # feedLog.resets]
       ELSE /\ state' = dropToken(IF state.prefetchToken = token
                                  THEN [state EXCEPT !.prefetch = NoPrefetch] ELSE state, token)
            /\ feedLog' = logOf
    /\ UNCHANGED <<now, idle, awaiting, grid, loadedMovies>>
    /\ UNCHANGED feedRest

\* Time passes: long enough for the cooldown of the infinite scroll, and so
\* for the callbacks of runIdle to have run (their timeout is shorter).
FeedTick ==
    /\ now - StartTime < MaxFeedTicks * INFINITE_SCROLL_COOLDOWN
    /\ idle = {}
    /\ now' = now + INFINITE_SCROLL_COOLDOWN
    /\ UNCHANGED <<isLocalStorageAvailable, TMDB_API_KEY, localStorage, calls, written, last,
                   quotaExceeded, keyVars, uiVars>>

InitFeed ==
    /\ now = StartTime
    /\ isLocalStorageAvailable = TRUE
    /\ TMDB_API_KEY \in KeyConfigs
    /\ localStorage = << >>
    /\ calls = [c \in Calls |-> Idle]
    /\ written = [k \in CacheKeys |-> NoWrite]
    /\ last = NoOp
    /\ quotaExceeded = {}
    /\ keyCall = NoKeyCall
    /\ UiInit

\* The steps that are no handler of the user's: the page starting, the
\* awaited calls settling, the idle callbacks, the clock.
FeedRuns ==
    \/ InitializeApp
    \/ \E i \in 1..Len(awaiting) :
          \E response \in FeedResponses(awaiting[i].request) : LoadSettles(i, response)
    \/ \E callback \in idle : IdleRuns(callback)
    \/ \E fetch \in fetches :
          \E response \in FeedResponses(fetch.request) : PrefetchSettles(fetch, response)
    \/ FeedTick

\* Browsing: the selection handlers and the infinite scroll.
NextFeed ==
    \/ \E category \in NavCategories : AttachNavClick(category)
    \/ \E nextSelection \in GenreSelections : CommitSelection(nextSelection)
    \/ \E title \in SearchTitles : HandleSearchSelection(title)
    \/ MaybeLoadMore
    \/ FeedRuns

SpecFeed == InitFeed /\ [][NextFeed]_vars

\* Searching: a title picked in the overlay, text typed in the field, scrolling.
NextSearch ==
    \/ \E title \in SearchTitles : HandleSearchSelection(title)
    \/ \E value \in TypedTexts : SearchInput(value)
    \/ MaybeLoadMore
    \/ FeedRuns

SpecSearch == InitFeed /\ [][NextSearch]_vars

----------------------------------------------------------------------------
\* C24: loadMovies takes its response from state.prefetch only when the record
\* was fetched for the category, genres, query and page it is about to load,
\* and a prefetch scheduled before a change of selection (before a later
\* resetPagination) is never stored in state.prefetch.
C24_PrefetchOnlyWhenMatching ==
    /\ feedLog.fromPrefetch => feedLog.got = feedLog.wanted
    /\ ~feedLog.staleStored

----------------------------------------------------------------------------
\* export const CONFIG = { TMDB_API_KEY, TMDB_BASE_URL, TMDB_IMAGE_BASE }: the
\* credential fields it has.
CONFIG == [TMDB_API_KEY |-> TMDB_API_KEY]

\* `${CONFIG[field]}`: a field the object lacks reads as undefined.
configText(field) == IF field \in DOMAIN CONFIG THEN CONFIG[field] ELSE "undefined"

\* headers: { 'Authorization': `Bearer ${CONFIG.TMDB_V4_TOKEN}` }, the same on
\* every attempt of fetchJsonWithCache.
Authorization == "Bearer " \o configText("TMDB_V4_TOKEN")

\* C25: every network attempt of fetchJsonWithCache carries in its
\* Authorization header the credential whose presence hasTmdbApiKey verified,
\* never an undefined or empty one.
C25_AttemptsCarryCredential ==
    \A c \in Calls :
        calls[c].netAttempts > 0 =>
            /\ hasTmdbApiKey
            /\ Authorization = "Bearer " \o CONFIG.TMDB_API_KEY
            /\ Authorization \notin {"Bearer undefined", "Bearer "}

----------------------------------------------------------------------------
\* The feed a rendered movie came from, and the movies of a list that came
\* from other feeds than the one selected in state.
feedOfMovie(movie) == movie \div 10
strangers(movies) ==
    {i \in 1..Len(movies) : feedOfMovie(movies[i]) # feedOf(requestOf(state, 1))}
firstPage == movieOf(requestOf(state, 1))

\* C26: when the selection was changed while a loadMovies call was awaiting,
\* then once the pending requests have settled (none of them failing) the grid
\* and state.loadedMovies hold page 1 of the selected feed and nothing of the
\* superseded one.
C26_SelectionChangeWins ==
    (feedLog.raced /\ ~feedLog.failed /\ Len(awaiting) = 0 /\ idle = {} /\ fetches = {})
        => /\ Len(grid) > 0 /\ grid[1] = firstPage
           /\ strangers(grid) = {}
           /\ \E i \in 1..Len(loadedMovies) : loadedMovies[i] = firstPage
           /\ strangers(loadedMovies) = {}

----------------------------------------------------------------------------
\* C27: for a fixed browse selection the pages rendered into the grid are
\* 1, 2, 3, ... in order, each once; after the load of page N failed
\* state.page is not left past the pages rendered, so that the next
\* maybeLoadMore loads page N again.
C27_ScrollSkipsNoPage ==
    feedLog.changes = 0 =>
        /\ \A i \in 1..Len(grid) : pageOf(grid[i]) = i
        /\ (Len(awaiting) = 0 /\ feedLog.started) => state.page <= Len(grid) + 1

----------------------------------------------------------------------------
\* C28: state.planner.queue never holds more than MAX_PLANNER_ITEMS items,
\* whatever the interleaving of queueMovie calls (overlapping at the await
\* of the runtime lookup or not) and of the Undo handlers.
C28_PlannerSizeLimit == Len(queue) <= MAX_PLANNER_ITEMS

\* C29: no two items of state.planner.queue have the same movie id, whatever
\* the interleaving of queueMovie calls for one movie and of the Undo handlers.
C29_PlannerNoDuplicates ==
    \A i \in 1..Len(queue), j \in 1..Len(queue) : queue[i].id = queue[j].id => i = j

----------------------------------------------------------------------------
\* C30: state.loading is true exactly while one loadMovies call is between
\* setting it and settling: never two calls awaiting a feed response, a call
\* made while it is true fetches nothing, and it is false once the call has
\* settled, with a response or with an error.
C30_LoadingIsLock ==
    /\ Len(awaiting) <= 1
    /\ state.loading <=> Len(awaiting) = 1
    /\ state.loading => hasTmdbApiKey
    /\ [][/\ (state.loading /\ ~state'.loading) => Len(awaiting) = 1 /\ Len(awaiting') = 0
          /\ (state.loading /\ Len(awaiting') >= Len(awaiting)) => awaiting' = awaiting]_vars

\* A selection was changed while a call was awaiting (the call of the handler
\* returned at once), the awaited fetch then failed, and the flag is down.
C30_Witness ==
    /\ feedLog.raced
    /\ feedLog.failed
    /\ feedLog.changes > 0
    /\ Len(awaiting) = 0
    /\ ~state.loading

====
